---------------------------- MODULE Spec2Model ----------------------------
(***************************************************************************)
(* A model of cargo-customs (src/src/main.rs): the scope resolver          *)
(* (packages_to_inspect, find_current_package), the policy loader and      *)
(* merger (load_customs), the matrix expander (Regulation::expand), the    *)
(* invocation builder (RegulationCheck::check) and the runner (run).       *)
(*                                                                         *)
(* Strings and paths are sequences of one-character strings, so that       *)
(* str::starts_with, str::strip_prefix and format! are computed character  *)
(* by character as the code computes them.  The model starts after         *)
(* `cargo metadata` has succeeded and the working directory is known.      *)
(***************************************************************************)
EXTENDS Integers, Sequences, FiniteSets, TLC

VARIABLES
    metadata,           \* cargo_metadata::Metadata: packages, workspace_members, workspace_root
    cwd,                \* std::env::current_dir()
    workspace,          \* args.workspace.workspace (the --workspace flag)
    fs,                 \* the file system: directory -> its Customs.toml document, or NoFile
    host,               \* rustc's host triple (version_meta().host), or NoRustc
    pc,                 \* position of run() / of the function under analysis
    packages_to_check,  \* run: the Vec returned by packages_to_inspect
    pkg,                \* run: index of the package of the outer for loop
    info,               \* run: the CustomsFile load_customs returned for the package
    reg,                \* run: index of the regulation the flat_map iterator is at
    checks,             \* run: the Vec<RegulationCheck> of the regulation being iterated
    chk,                \* run: index of the RegulationCheck within checks
    spawned,            \* every cargo process launched so far, in launch order
    warned,             \* packages for which "No customs file" was logged
    result,             \* outcome of run(): Running, Ok, an Error variant, or Panic
    arg,                \* input of the function under analysis (pure-function specifications)
    ret                 \* its return value

vars == <<metadata, cwd, workspace, fs, host, pc, packages_to_check, pkg, info,
          reg, checks, chk, spawned, warned, result, arg, ret>>

runVars == <<packages_to_check, pkg, info, reg, checks, chk, spawned, warned, result>>

Null == [tag |-> "Null"]

----------------------------------------------------------------------------
(* String literals of the source, as character sequences.                  *)

CARGO_TOML == <<"C","a","r","g","o",".","t","o","m","l">>
CUSTOMS_FILE_NAME == <<"C","u","s","t","o","m","s",".","t","o","m","l">>
HOST_PLATFORM_DESIGNATOR == <<"h","o","s","t">>
ALL_BUILD_TARGETS_DESIGNATOR == <<"a","l","l">>
S_lib == <<"l","i","b">>
S_bins == <<"b","i","n","s">>
S_tests == <<"t","e","s","t","s">>
S_bin_colon == <<"b","i","n",":">>
S_dd_lib == <<"-","-","l","i","b">>
S_dd_bins == <<"-","-","b","i","n","s">>
S_dd_tests == <<"-","-","t","e","s","t","s">>
S_dd_all_targets == <<"-","-","a","l","l","-","t","a","r","g","e","t","s">>
S_dd_bin_eq == <<"-","-","b","i","n","=">>
S_dd_target_eq == <<"-","-","t","a","r","g","e","t","=">>
S_dd == <<"-","-">>

(* Further strings that occur only in the inputs.                          *)
S_examples == <<"e","x","a","m","p","l","e","s">>
S_benches == <<"b","e","n","c","h","e","s">>
S_all_targets == <<"a","l","l","-","t","a","r","g","e","t","s">>
S_example_colon == <<"e","x","a","m","p","l","e",":">>
S_test_colon == <<"t","e","s","t",":">>
S_bench_colon == <<"b","e","n","c","h",":">>
S_test == <<"t","e","s","t">>
S_check == <<"c","h","e","c","k">>
S_foo == <<"f","o","o">>
S_wasm == <<"w","a","s","m">>
S_x86 == <<"x","8","6">>
S_nocapture == <<"-","-","n","o","c","a","p","t","u","r","e">>
NoRustc == <<"?">>

----------------------------------------------------------------------------
(* str and Path primitives.                                                *)

\* str::starts_with
starts_with(s, p) == Len(p) <= Len(s) /\ SubSeq(s, 1, Len(p)) = p

\* str::strip_prefix: the rest after the prefix, or None
strip_prefix(s, p) ==
    IF starts_with(s, p) THEN [tag |-> "Some", val |-> SubSeq(s, Len(p) + 1, Len(s))]
    ELSE [tag |-> "None"]

RootDir == <<"/">>

\* index of the last "/" of an absolute path
LastSlash(p) == CHOOSE i \in 1..Len(p) : p[i] = "/" /\ \A j \in (i+1)..Len(p) : p[j] # "/"

\* Path::parent: the path without its last component; None for "/"
parent(p) ==
    IF p = RootDir THEN [tag |-> "None"]
    ELSE IF LastSlash(p) = 1 THEN [tag |-> "Some", val |-> RootDir]
    ELSE [tag |-> "Some", val |-> SubSeq(p, 1, LastSlash(p) - 1)]

\* Path::join of a directory and a file name
join(dir, name) == IF dir = RootDir THEN dir \o name ELSE dir \o <<"/">> \o name

\* Path::ancestors: the path itself, its parent, ..., "/"
RECURSIVE ancestors(_)
ancestors(p) ==
    IF parent(p).tag = "None" THEN <<p>> ELSE <<p>> \o ancestors(parent(p).val)

\* Package::manifest_path of a package whose root directory is dir
manifest_path(dir) == join(dir, CARGO_TOML)

\* p.manifest_path.parent().expect(..)
package_dir(p) == parent(p.manifest_path).val

----------------------------------------------------------------------------
(* Scope resolver.                                                         *)

\* Metadata::workspace_packages: the packages that are workspace members, in
\* the order of metadata.packages
workspace_packages(md) ==
    LET idx == {i \in 1..Len(md.packages) : md.packages[i].id \in md.workspace_members}
        RECURSIVE pick(_)
        pick(i) == IF i > Len(md.packages) THEN <<>>
                   ELSE (IF i \in idx THEN <<md.packages[i]>> ELSE <<>>) \o pick(i + 1)
    IN pick(1)

\* the (p, len) pair find_current_package maps a member to
prefix_score(p, dir) == IF starts_with(dir, package_dir(p)) THEN Len(package_dir(p)) ELSE 0

\* Iterator::max_by: the last element among those of maximal score
max_by_index(scores) ==
    CHOOSE i \in 1..Len(scores) :
        /\ \A j \in 1..Len(scores) : scores[j] <= scores[i]
        /\ \A j \in (i+1)..Len(scores) : scores[j] < scores[i]

find_current_package(md, dir) ==
    LET members == workspace_packages(md)
        scores == [i \in 1..Len(members) |-> prefix_score(members[i], dir)]
    IN IF Len(members) = 0 THEN [tag |-> "None"]
       ELSE IF scores[max_by_index(scores)] > 0
            THEN [tag |-> "Some", val |-> members[max_by_index(scores)]]
            ELSE [tag |-> "None"]

packages_to_inspect(md, dir, ws) ==
    LET current_package == find_current_package(md, dir)
    IN IF ws THEN workspace_packages(md)
       ELSE IF current_package.tag = "Some" THEN <<current_package.val>>
       ELSE workspace_packages(md)

----------------------------------------------------------------------------
(* Policy files.  A document is a Customs.toml as written; a CustomsFile   *)
(* is what serde makes of it.  A raw regulation records, besides the three *)
(* keys struct Regulation declares, whether it carries a `feature-sets`    *)
(* key, which struct Regulation does not declare.                          *)

None == [tag |-> "None"]
Some(v) == [tag |-> "Some", val |-> v]
NoFile == [tag |-> "NoFile"]

\* serde on one [[regulation]] / [default] table: #[serde(deny_unknown_fields)]
\* rejects a key the struct does not declare
deserialize_regulation(raw) ==
    IF raw.feature_sets.tag = "Some" THEN [tag |-> "Err"]
    ELSE [tag |-> "Ok",
          val |-> [platform_targets |-> raw.platform_targets,
                   build_targets |-> raw.build_targets,
                   jobs |-> raw.jobs]]

\* toml::from_str::<CustomsFile>
from_str(doc) ==
    LET regs == [i \in 1..Len(doc.regulation) |-> deserialize_regulation(doc.regulation[i])]
        dflt == IF doc.default.tag = "Some"
                THEN deserialize_regulation(doc.default.val) ELSE [tag |-> "Ok"]
    IN IF dflt.tag = "Err" \/ \E i \in 1..Len(regs) : regs[i].tag = "Err"
       THEN [tag |-> "Err", err |-> "InvalidToml"]
       ELSE [tag |-> "Ok",
             val |-> [default |-> IF doc.default.tag = "Some" THEN Some(dflt.val) ELSE None,
                      regulation |-> [i \in 1..Len(regs) |-> regs[i].val]]]

\* std::fs::read_to_string / std::fs::exists on <dir>/Customs.toml
read_to_string(fsys, dir) == IF dir \in DOMAIN fsys THEN fsys[dir] ELSE NoFile

\* Job::from_short
from_short(name) == [name |-> name, args |-> <<>>]

\* Job::from_parameters
from_parameters(name, parameters) == [name |-> name, args |-> parameters]

\* Jobs::into_jobs.  Short keeps the list order; Detailed is a HashMap, whose
\* iteration order is unspecified: order is the permutation the map iterates in.
into_jobs(jobs, order) ==
    IF jobs.kind = "Short"
    THEN [i \in 1..Len(jobs.items) |-> from_short(jobs.items[i])]
    ELSE [i \in 1..Len(jobs.items) |->
            from_parameters(jobs.items[order[i]][1], jobs.items[order[i]][2])]

\* regulation.jobs.clone().into_jobs().is_empty()
jobs_is_empty(jobs) == Len(jobs.items) = 0

\* Iterator::take_while(|e| e != workspace_root) over manifest_path.ancestors()
RECURSIVE take_while_not_root(_, _)
take_while_not_root(anc, root) ==
    IF anc = <<>> \/ Head(anc) = root THEN <<>>
    ELSE <<Head(anc)>> \o take_while_not_root(Tail(anc), root)

\* mutant of customs_dirs: the workspace root's directory is left out, unless
\* it is the package's own
customs_dirs_without_root(package, md) ==
    LET below == take_while_not_root(ancestors(package.manifest_path), md.workspace_root)
        Keep(d) == d # md.workspace_root \/ d = package_dir(package)
    IN IF \E i \in 1..Len(below) : parent(below[i]).tag = "None"
       THEN [tag |-> "Panic"]
       ELSE [tag |-> "Ok",
             val |-> SelectSeq([i \in 1..Len(below) |-> parent(below[i]).val], Keep)]

\* the directories whose Customs.toml load_customs collects, unit first:
\* .map(|e| e.parent().unwrap().join(CUSTOMS_FILE_NAME)); unwrap panics on "/"
customs_dirs(package, md) ==
    LET below == take_while_not_root(ancestors(package.manifest_path), md.workspace_root)
    IN IF \E i \in 1..Len(below) : parent(below[i]).tag = "None"
       THEN [tag |-> "Panic"]
       ELSE [tag |-> "Ok", val |-> [i \in 1..Len(below) |-> parent(below[i]).val]]

\* the documents that could be read, in the order of dirs (.flat_map(|e| e.ok()))
RECURSIVE read_all(_, _)
read_all(fsys, dirs) ==
    IF dirs = <<>> THEN <<>>
    ELSE (IF read_to_string(fsys, Head(dirs)) = NoFile THEN <<>>
          ELSE <<read_to_string(fsys, Head(dirs))>>) \o read_all(fsys, Tail(dirs))

\* Iterator::rev
rev(s) == [i \in 1..Len(s) |-> s[Len(s) + 1 - i]]

\* "Read all applicable Customs files": parse each, fail on the first error,
\* reverse into root-to-unit order
read_customs(fsys, dirs) ==
    LET parsed == [i \in 1..Len(read_all(fsys, dirs)) |-> from_str(read_all(fsys, dirs)[i])]
    IN IF \E i \in 1..Len(parsed) : parsed[i].tag = "Err"
       THEN [tag |-> "Err", err |-> "InvalidToml"]
       ELSE [tag |-> "Ok", val |-> rev([i \in 1..Len(parsed) |-> parsed[i].val])]

\* mutant of last_default: the first default, the farthest one, is kept
RECURSIVE last_default_takes_first(_)
last_default_takes_first(customs) ==
    IF customs = <<>> THEN None
    ELSE IF Head(customs).default.tag = "Some" THEN Head(customs).default
    ELSE last_default_takes_first(Tail(customs))

\* customs.into_iter().flat_map(|e| e.default.clone()).last()
RECURSIVE last_default(_)
last_default(customs) ==
    IF customs = <<>> THEN None
    ELSE IF customs[Len(customs)].default.tag = "Some" THEN customs[Len(customs)].default
    ELSE last_default(SubSeq(customs, 1, Len(customs) - 1))

\* "fill any empty sets with defaults", for one regulation
fill_regulation(regulation, default) ==
    [platform_targets |-> IF regulation.platform_targets = <<>>
                          THEN default.platform_targets ELSE regulation.platform_targets,
     build_targets |-> IF regulation.build_targets = <<>>
                       THEN default.build_targets ELSE regulation.build_targets,
     jobs |-> IF jobs_is_empty(regulation.jobs) THEN default.jobs ELSE regulation.jobs]

\* the merge of load_customs: crate_customs with its regulations filled
merge_customs(customs) ==
    LET crate_customs == customs[Len(customs)]
        default == last_default(customs)
    IN IF default.tag = "Some"
       THEN [default |-> crate_customs.default,
             regulation |-> [i \in 1..Len(crate_customs.regulation) |->
                               fill_regulation(crate_customs.regulation[i], default.val)]]
       ELSE crate_customs

load_customs(package, md, fsys) ==
    LET crate_dir == package_dir(package)
        dirs == customs_dirs(package, md)
        customs == read_customs(fsys, dirs.val)
    IN IF read_to_string(fsys, crate_dir) = NoFile THEN [tag |-> "Ok", val |-> None]
       ELSE IF from_str(read_to_string(fsys, crate_dir)).tag = "Err"
            THEN [tag |-> "Err", err |-> "InvalidToml"]
       ELSE IF dirs.tag = "Panic" THEN [tag |-> "Panic"]
       ELSE IF customs.tag = "Err" THEN customs
       ELSE [tag |-> "Ok", val |-> Some(merge_customs(customs.val))]

----------------------------------------------------------------------------
(* Matrix expander.                                                        *)

\* mutant of cartesian_product: the right sequence is the outer loop
cartesian_product_right_outermost(A, B) ==
    [k \in 1..(Len(A) * Len(B)) |->
        <<A[((k - 1) % Len(A)) + 1], B[((k - 1) \div Len(A)) + 1]>>]

\* itertools cartesian_product: every pair, the left sequence outermost
cartesian_product(A, B) ==
    [k \in 1..(Len(A) * Len(B)) |->
        <<A[((k - 1) \div Len(B)) + 1], B[((k - 1) % Len(B)) + 1]>>]

\* mutant of all_not_alone: one companion of `all` is let through
all_not_alone_off_by_one(build_targets) ==
    /\ \E i \in 1..Len(build_targets) : build_targets[i] = ALL_BUILD_TARGETS_DESIGNATOR
    /\ Len(build_targets) > 2

\* the condition under which expand panics
all_not_alone(build_targets) ==
    /\ \E i \in 1..Len(build_targets) : build_targets[i] = ALL_BUILD_TARGETS_DESIGNATOR
    /\ Len(build_targets) # 1

\* Regulation::expand; order is the iteration order of a Detailed jobs map
expand(regulation, order) ==
    LET jobs == into_jobs(regulation.jobs, order)
        product == cartesian_product(
                       cartesian_product(regulation.platform_targets, regulation.build_targets),
                       jobs)
    IN IF all_not_alone(regulation.build_targets) THEN [tag |-> "Panic"]
       ELSE [tag |-> "Ok",
             val |-> [k \in 1..Len(product) |->
                        [platform_target |-> product[k][1][1],
                         build_target |-> product[k][1][2],
                         job |-> product[k][2]]]]

\* the permutations of 1..n, as sequences
Orders(n) == {o \in [1..n -> 1..n] : \A i, j \in 1..n : o[i] = o[j] => i = j}

----------------------------------------------------------------------------
(* Invocation builder.                                                     *)

\* the match on self.build_target of RegulationCheck::check
build_target_flag(build_target) ==
    IF build_target = S_lib THEN Some(S_dd_lib)
    ELSE IF build_target = S_bins THEN Some(S_dd_bins)
    ELSE IF build_target = S_tests THEN Some(S_dd_tests)
    ELSE IF build_target = ALL_BUILD_TARGETS_DESIGNATOR THEN Some(S_dd_all_targets)
    ELSE IF strip_prefix(build_target, S_bin_colon).tag = "Some"
         THEN Some(S_dd_bin_eq \o strip_prefix(build_target, S_bin_colon).val)
    ELSE [tag |-> "Panic"]

\* get_host_platform_target: version_meta().expect(..).host
get_host_platform_target(h) == IF h = NoRustc THEN [tag |-> "Panic"] ELSE Some(h)

\* mutant of resolve_platform_target: `host` is passed on as it is
resolve_platform_target_verbatim(platform_target, h) == Some(platform_target)

\* the platform target check passes to cargo
resolve_platform_target(platform_target, h) ==
    IF platform_target = HOST_PLATFORM_DESIGNATOR
    THEN get_host_platform_target(h) ELSE Some(platform_target)

\* the arguments after the build target: "--" and the job's args, if any
job_args(job) == IF job.args # <<>> THEN <<S_dd>> \o job.args ELSE <<>>

\* the argument vector of the Command built by RegulationCheck::check
command_args(unit, platform_target, flag) ==
    <<unit.job.name, S_dd_target_eq \o platform_target, flag>> \o job_args(unit.job)

\* RegulationCheck::check up to command.status(): the Command it launches in
\* path, or the panic of the build-target match or of get_host_platform_target
build_command(unit, path, h) ==
    LET flag == build_target_flag(unit.build_target)
        platform_target == resolve_platform_target(unit.platform_target, h)
    IN IF flag.tag = "Panic" THEN [tag |-> "Panic"]
       ELSE IF platform_target.tag = "Panic" THEN [tag |-> "Panic"]
       ELSE [tag |-> "Command",
             args |-> command_args(unit, platform_target.val, flag.val),
             current_dir |-> path]

\* what the exit status of the cargo process can be: status.success() or not
\* (cargo itself can be launched: `cargo metadata` has just run)
Statuses == {"exit0", "nonzero"}

\* mutant of check_result: the exit status is not looked at
check_result_ignores_status(status) == "Ok"

\* the Result of RegulationCheck::check once command.status() returned status:
\* anyhow::bail!("failed"), which run() wraps in Error::Unexpected
check_result(status) == IF status # "exit0" THEN "Unexpected(failed)" ELSE "Ok"

----------------------------------------------------------------------------
(* Bounds and input sets.                                                  *)

MaxRegs == 2        \* regulations per Customs.toml
MaxPkgs == 2        \* packages cargo metadata lists (scope resolver)

\* the sequences over S of length at most n
SeqsUpTo(S, n) == UNION {[1..k -> S] : k \in 0..n}

\* the sequences over S of length 1..n without repetition
DistinctSeqs(S, n) ==
    {s \in UNION {[1..k -> S] : k \in 1..n} : \A i, j \in 1..Len(s) : s[i] = s[j] => i = j}

Short(items) == [kind |-> "Short", items |-> items]
Detailed(items) == [kind |-> "Detailed", items |-> items]

RawRegulation(p, b, j) ==
    [platform_targets |-> p, build_targets |-> b, jobs |-> j, feature_sets |-> None]

Document(d, regs) == [default |-> d, regulation |-> regs]

Package(dir) == [id |-> dir, manifest_path |-> manifest_path(dir)]

P_w == <<"/","w">>
P_w_a == <<"/","w","/","a">>
P_w_b == <<"/","w","/","b">>

----------------------------------------------------------------------------
(* The runner: run().                                                      *)

\* the regulations of the Customs.toml files of the run
RunRegs ==
    { RawRegulation(<<HOST_PLATFORM_DESIGNATOR>>, <<S_lib>>, Short(<<S_test>>)),
      RawRegulation(<<HOST_PLATFORM_DESIGNATOR, S_wasm>>, <<>>, Short(<<>>)),
      RawRegulation(<<S_wasm>>, <<ALL_BUILD_TARGETS_DESIGNATOR, S_lib>>, Short(<<S_test>>)) }

RunDefault ==
    RawRegulation(<<S_wasm>>, <<ALL_BUILD_TARGETS_DESIGNATOR>>,
                  Detailed(<<<<S_check, <<S_nocapture>>>>>>))

\* a document serde rejects: its regulation carries an undeclared key
InvalidDoc ==
    Document(None, <<[platform_targets |-> <<>>, build_targets |-> <<>>,
                      jobs |-> Short(<<>>), feature_sets |-> Some(<<>>)]>>)

RunDocs ==
    {Document(d, regs) : d \in {None, Some(RunDefault)}, regs \in SeqsUpTo(RunRegs, MaxRegs)}
    \cup {InvalidDoc}

\* the Customs.toml of a workspace root that holds no package: only its
\* default, or its being invalid, can matter
RootOnlyDocs == {NoFile, Document(Some(RunDefault), <<>>), InvalidDoc}

\* the packages of the workspace rooted at /w: a lonely crate, one member
\* below the root, two members below the root, a root package and a member
RunLayouts == {<<P_w>>, <<P_w_a>>, <<P_w_a, P_w_b>>, <<P_w, P_w_a>>}

RunMetadata ==
    {[packages |-> [i \in 1..Len(s) |-> Package(s[i])],
      workspace_members |-> {s[i] : i \in 1..Len(s)},
      workspace_root |-> P_w] : s \in RunLayouts}

\* a file system: a document or none for every member directory, and for the
\* workspace root if it is no member's
RunFileSystems(md) ==
    IF P_w \in md.workspace_members
    THEN [md.workspace_members -> RunDocs \cup {NoFile}]
    ELSE {members @@ (P_w :> root) :
             members \in [md.workspace_members -> RunDocs \cup {NoFile}],
             root \in RootOnlyDocs}

RunInit ==
    /\ metadata \in RunMetadata
    /\ cwd \in {P_w, P_w_a}
    /\ workspace \in BOOLEAN
    /\ fs \in RunFileSystems(metadata)
    /\ host = S_x86
    /\ pc = "start"
    /\ packages_to_check = <<>>
    /\ pkg = 0
    /\ info = Null
    /\ reg = 0
    /\ checks = <<>>
    /\ chk = 0
    /\ spawned = <<>>
    /\ warned = {}
    /\ result = "Running"
    /\ arg = Null
    /\ ret = Null

\* mutant of customs_missing_is_error: the --workspace flag is not looked at
customs_missing_is_error_any_mode(n, ws) == n = 1

\* `packages_to_check.len() == 1 && !args.workspace.workspace`
customs_missing_is_error(n, ws) == n = 1 /\ ~ws

inputs == <<metadata, cwd, workspace, fs, host, arg, ret>>

\* run() returns or panics
Return(r) == pc' = "done" /\ result' = r

\* let packages_to_check = packages_to_inspect(..)
Start ==
    /\ pc = "start"
    /\ packages_to_check' = packages_to_inspect(metadata, cwd, workspace)
    /\ pkg' = 1
    /\ pc' = "package"
    /\ UNCHANGED <<inputs, info, reg, checks, chk, spawned, warned, result>>

\* one iteration of `for package in packages_to_check.iter()` up to the inner loop
LoadCustoms ==
    /\ pc = "package"
    /\ pkg <= Len(packages_to_check)
    /\ LET loaded == load_customs(packages_to_check[pkg], metadata, fs)
       IN IF loaded.tag = "Err"
          THEN Return(loaded.err) /\ UNCHANGED <<pkg, info, reg, warned>>
          ELSE IF loaded.tag = "Panic"
          THEN Return("Panic") /\ UNCHANGED <<pkg, info, reg, warned>>
          ELSE IF loaded.val.tag = "None"
          THEN IF customs_missing_is_error(Len(packages_to_check), workspace)
               THEN Return("CustomsMissing") /\ UNCHANGED <<pkg, info, reg, warned>>
               ELSE /\ warned' = warned \cup {packages_to_check[pkg].id}
                    /\ pkg' = pkg + 1
                    /\ UNCHANGED <<pc, result, info, reg>>
          ELSE /\ info' = loaded.val.val
               /\ reg' = 1
               /\ pc' = "regulation"
               /\ UNCHANGED <<pkg, warned, result>>
    /\ UNCHANGED <<inputs, packages_to_check, checks, chk, spawned>>

\* the flat_map iterator takes the next regulation and expands it
Expand ==
    /\ pc = "regulation"
    /\ reg <= Len(info.regulation)
    /\ \E order \in Orders(Len(info.regulation[reg].jobs.items)) :
         LET expanded == expand(info.regulation[reg], order)
         IN IF expanded.tag = "Panic"
            THEN Return("Panic") /\ UNCHANGED <<checks, chk>>
            ELSE /\ checks' = expanded.val
                 /\ chk' = 1
                 /\ pc' = "check"
                 /\ UNCHANGED result
    /\ UNCHANGED <<inputs, packages_to_check, pkg, info, reg, spawned, warned>>

\* regulation.check(directory)?
Check ==
    /\ pc = "check"
    /\ chk <= Len(checks)
    /\ LET command == build_command(checks[chk], package_dir(packages_to_check[pkg]), host)
       IN IF command.tag = "Panic"
          THEN Return("Panic") /\ UNCHANGED <<chk, spawned>>
          ELSE \E status \in Statuses :
                 /\ spawned' = Append(spawned, [args |-> command.args,
                                                current_dir |-> command.current_dir,
                                                status |-> status,
                                                unit |-> checks[chk],
                                                regulation |-> info.regulation[reg]])
                 /\ IF check_result(status) = "Ok"
                    THEN chk' = chk + 1 /\ UNCHANGED <<pc, result>>
                    ELSE Return(check_result(status)) /\ UNCHANGED chk
    /\ UNCHANGED <<inputs, packages_to_check, pkg, info, reg, checks, warned>>

\* the checks of the regulation are exhausted: on to the next regulation
NextRegulation ==
    /\ pc = "check"
    /\ chk > Len(checks)
    /\ reg' = reg + 1
    /\ pc' = "regulation"
    /\ UNCHANGED <<inputs, packages_to_check, pkg, info, checks, chk, spawned, warned, result>>

\* the regulations of the package are exhausted: on to the next package
NextPackage ==
    /\ pc = "regulation"
    /\ reg > Len(info.regulation)
    /\ pkg' = pkg + 1
    /\ pc' = "package"
    /\ UNCHANGED <<inputs, packages_to_check, info, reg, checks, chk, spawned, warned, result>>

\* the packages are exhausted: Ok(())
Finish ==
    /\ pc = "package"
    /\ pkg > Len(packages_to_check)
    /\ Return("Ok")
    /\ UNCHANGED <<inputs, packages_to_check, pkg, info, reg, checks, chk, spawned, warned>>

Next == Start \/ LoadCustoms \/ Expand \/ Check \/ NextRegulation \/ NextPackage \/ Finish

Spec == RunInit /\ [][Next]_vars

----------------------------------------------------------------------------
(* Properties of the runner.                                               *)

Last(s) == s[Len(s)]

\* the package the outer loop is at has no Customs.toml
CurrentPolicyMissing ==
    /\ pc = "package"
    /\ pkg <= Len(packages_to_check)
    /\ read_to_string(fs, package_dir(packages_to_check[pkg])) = NoFile

(* C1: fail-fast.  A process that exited with a non-zero status is the last *)
(* process ever spawned and the run has ended in failure; a process that   *)
(* exits with status zero leaves the run going, at the next execution unit *)
(* of the same regulation.                                                 *)
C1_FailFast ==
    /\ [](\A i \in 1..Len(spawned) :
             spawned[i].status = "nonzero" =>
                 i = Len(spawned) /\ pc = "done" /\ result = "Unexpected(failed)")
    /\ [][(Len(spawned') = Len(spawned) + 1 /\ Last(spawned').status = "exit0") =>
             (pc' = "check" /\ result' = "Running" /\ chk' = chk + 1
              /\ checks' = checks /\ reg' = reg /\ pkg' = pkg)]_vars

\* a process failed while execution units, regulations and packages remained
C1_Witness ==
    /\ pc = "done"
    /\ spawned # <<>>
    /\ Last(spawned).status = "nonzero"
    /\ chk < Len(checks)
    /\ reg < Len(info.regulation)
    /\ pkg < Len(packages_to_check)

\* the number of execution units of the merged regulations regs
RECURSIVE UnitCount(_)
UnitCount(regs) ==
    IF regs = <<>> THEN 0
    ELSE Len(Head(regs).platform_targets) * Len(Head(regs).build_targets)
           * Len(Head(regs).jobs.items) + UnitCount(Tail(regs))

\* the workspace has two members, exactly one of which holds a policy file
TwoMembersOnePolicy ==
    /\ Len(metadata.packages) = 2
    /\ Cardinality(metadata.workspace_members) = 2
    /\ Cardinality({d \in metadata.workspace_members : read_to_string(fs, d) = NoFile}) = 1

(* C2: a unit without a policy file.  Not workspace-wide and resolved to   *)
(* exactly one unit that has no policy file: no process is ever spawned    *)
(* and the run ends with CustomsMissing.  Workspace-wide: the run never    *)
(* ends with CustomsMissing; a member without a policy file is warned      *)
(* about and skipped, and the loop goes on with the next member; with two  *)
(* members of which one holds a policy, a run in which nothing else fails  *)
(* ends Ok, having run exactly that member's expansion.                    *)
C2_MissingPolicy ==
    /\ []((/\ ~workspace
           /\ pc # "start"
           /\ Len(packages_to_check) = 1
           /\ read_to_string(fs, package_dir(packages_to_check[1])) = NoFile)
          => (spawned = <<>> /\ (pc = "done" => result = "CustomsMissing")))
    /\ [](workspace => result # "CustomsMissing")
    /\ [][(workspace /\ CurrentPolicyMissing) =>
             (/\ pc' = "package"
              /\ pkg' = pkg + 1
              /\ result' = "Running"
              /\ warned' = warned \cup {packages_to_check[pkg].id}
              /\ spawned' = spawned)]_vars
    /\ []((/\ workspace
           /\ TwoMembersOnePolicy
           /\ pc = "done"
           /\ result \notin {"Panic", "InvalidToml", "Unexpected(failed)"})
          => (/\ result = "Ok"
              /\ warned = {d \in metadata.workspace_members : read_to_string(fs, d) = NoFile}
              /\ \A i \in 1..Len(spawned) : spawned[i].current_dir \notin warned
              /\ \E d \in metadata.workspace_members \ warned :
                    Len(spawned) =
                        UnitCount(load_customs(Package(d), metadata, fs).val.val.regulation)))

\* a workspace-wide run over two members, one without a policy, ended Ok
\* after running the other member's expansion
C2_Witness ==
    /\ workspace
    /\ TwoMembersOnePolicy
    /\ pc = "done"
    /\ result = "Ok"
    /\ warned # {}
    /\ Len(spawned) >= 2

\* some argument of the vector starts with "--target"
HasTargetFlag(args) == \E i \in 1..Len(args) : starts_with(args[i], <<"-","-","t","a","r","g","e","t">>)

\* the single-unit project of the end-to-end example: a lonely crate whose
\* Customs.toml holds the one regulation host / lib / test
LonelyCrateExample ==
    /\ metadata.packages = <<Package(P_w)>>
    /\ ~workspace
    /\ fs[P_w] # NoFile
    /\ fs[P_w].regulation =
          <<RawRegulation(<<HOST_PLATFORM_DESIGNATOR>>, <<S_lib>>, Short(<<S_test>>))>>

AllWithOthers(build_targets) ==
    \E i, j \in 1..Len(build_targets) :
        i # j /\ build_targets[i] = <<"a","l","l">>

\* the flat_map iterator is about to expand a regulation
AtRegulation == pc = "regulation" /\ reg <= Len(info.regulation)

(* C8: `all` exclusivity.  Expanding a regulation whose build-targets hold *)
(* `all` together with another entry panics: the run ends at once, no      *)
(* process is spawned for it, and no process ever spawned belongs to such  *)
(* a regulation.  A regulation whose build-targets are exactly [all]       *)
(* expands without error, into one unit per platform-target and job.       *)
C8_AllExclusive ==
    /\ [](\A i \in 1..Len(spawned) : ~AllWithOthers(spawned[i].regulation.build_targets))
    /\ [][(AtRegulation /\ AllWithOthers(info.regulation[reg].build_targets)) =>
             (pc' = "done" /\ result' = "Panic" /\ spawned' = spawned)]_vars
    /\ [][(AtRegulation /\ info.regulation[reg].build_targets = << <<"a","l","l">> >>) =>
             (/\ pc' = "check"
              /\ result' = "Running"
              /\ Len(checks') = Len(info.regulation[reg].platform_targets)
                                  * Len(info.regulation[reg].jobs.items)
              /\ \A k \in 1..Len(checks') : checks'[k].build_target = <<"a","l","l">>)]_vars

\* the run panicked on a regulation with [all, lib], after an earlier
\* regulation of the same file had run its process
C8_Witness ==
    /\ pc = "done"
    /\ result = "Panic"
    /\ reg = 2
    /\ AllWithOthers(info.regulation[reg].build_targets)
    /\ spawned # <<>>

(* C9: a unit targeted individually whose policy file holds no regulation  *)
(* after the merge makes the run end with an error, not Ok.                *)
C9_EmptyRegulationIsError ==
    (/\ pc = "done"
     /\ ~workspace
     /\ Len(packages_to_check) = 1
     /\ info # Null
     /\ info.regulation = <<>>)
    => result # "Ok"

----------------------------------------------------------------------------
(* The scope resolver on its own: packages_to_inspect over the packages    *)
(* and working directories of a workspace rooted at /w.                    *)

MaxDepth == 2       \* directory levels below the workspace root

\* directory names: one is a proper string prefix of the other
Names == {<<"a">>, <<"a","b">>}

\* the directories at most n levels below dir
RECURSIVE DirsBelow(_, _)
DirsBelow(dir, n) ==
    IF n = 0 THEN {dir}
    ELSE {dir} \cup UNION {DirsBelow(join(dir, name), n - 1) : name \in Names}

ScopeDirs == DirsBelow(P_w, MaxDepth)

\* the packages cargo metadata lists for the workspace at root, and which of
\* them are workspace members
ScopeMetadata(root) ==
    UNION {{[packages |-> [i \in 1..Len(s) |-> Package(s[i])],
             workspace_members |-> m,
             workspace_root |-> root] : m \in (SUBSET {s[i] : i \in 1..Len(s)}) \ {{}}} :
           s \in DistinctSeqs(ScopeDirs, MaxPkgs)}

\* the values of the variables of run(), which the function specifications leave alone
RunIdle ==
    /\ packages_to_check = <<>>
    /\ pkg = 0
    /\ info = Null
    /\ reg = 0
    /\ checks = <<>>
    /\ chk = 0
    /\ spawned = <<>>
    /\ warned = {}
    /\ result = "Running"

ScopeInit ==
    /\ metadata \in ScopeMetadata(P_w)
    /\ cwd \in ScopeDirs \cup {RootDir}
    /\ workspace \in BOOLEAN
    /\ fs = <<>>
    /\ host = S_x86
    /\ pc = "call"
    /\ arg = Null
    /\ ret = Null
    /\ RunIdle

\* let packages_to_check = packages_to_inspect(&metadata, &cwd, workspace)
ResolveScope ==
    /\ pc = "call"
    /\ ret' = [current_package |-> find_current_package(metadata, cwd),
               packages |-> packages_to_inspect(metadata, cwd, workspace)]
    /\ pc' = "done"
    /\ UNCHANGED <<metadata, cwd, workspace, fs, host, arg, runVars>>

SpecScope == ScopeInit /\ [][ResolveScope]_vars

\* dir is loc or a directory above it (Path::starts_with: whole components)
GenuineAncestor(dir, loc) ==
    /\ Len(dir) <= Len(loc)
    /\ SubSeq(loc, 1, Len(dir)) = dir
    /\ (Len(dir) = Len(loc) \/ loc[Len(dir) + 1] = "/")

\* the workspace members whose root directory is cwd or above it
MembersAbove ==
    {i \in 1..Len(metadata.packages) :
        /\ metadata.packages[i].id \in metadata.workspace_members
        /\ GenuineAncestor(metadata.packages[i].id, cwd)}

(* C3: current-unit resolution.  find_current_package returns the member   *)
(* whose root directory is the longest one that is the working location or *)
(* a genuine ancestor of it, and no unit when no member root is one; in    *)
(* that case, without the workspace flag, packages_to_inspect returns all  *)
(* workspace members.                                                      *)
C3_LongestAncestor ==
    pc = "done" =>
        IF MembersAbove = {}
        THEN /\ ret.current_package = None
             /\ (~workspace => ret.packages = workspace_packages(metadata))
        ELSE \E i \in MembersAbove :
                /\ \A j \in MembersAbove :
                      Len(metadata.packages[j].id) <= Len(metadata.packages[i].id)
                /\ ret.current_package = Some(metadata.packages[i])

----------------------------------------------------------------------------
(* The policy loader on its own: load_customs for one package of a         *)
(* workspace rooted at /w, over the Customs.toml files of the package's    *)
(* directory, of the directories above it, and of / above the root.        *)

P_w_a_b == <<"/","w","/","a","/","b">>
P_x == <<"/","x">>

\* the regulations of the package's own Customs.toml: every pair of fields in
\* every combination of empty and given
LoadRegs ==
    { RawRegulation(<<>>, <<>>, Short(<<>>)),
      RawRegulation(<<HOST_PLATFORM_DESIGNATOR>>, <<>>, Short(<<S_test>>)),
      RawRegulation(<<>>, <<S_lib>>, Detailed(<<>>)),
      RawRegulation(<<HOST_PLATFORM_DESIGNATOR>>, <<S_lib>>, Short(<<>>)),
      RawRegulation(<<>>, <<>>, Short(<<S_test>>)),
      RawRegulation(<<HOST_PLATFORM_DESIGNATOR>>, <<S_lib>>, Short(<<S_test>>)) }

\* the [default] tables: two full ones, and one with empty fields
LoadDefaults ==
    { RawRegulation(<<S_wasm>>, <<S_tests>>, Short(<<S_check>>)),
      RawRegulation(<<S_x86>>, <<S_bins>>, Detailed(<<<<S_check, <<S_nocapture>>>>>>)),
      RawRegulation(<<>>, <<ALL_BUILD_TARGETS_DESIGNATOR>>, Short(<<>>)) }

DefaultOptions == {None} \cup {Some(d) : d \in LoadDefaults}

\* the package's own file
OwnDocs ==
    {Document(d, regs) : d \in DefaultOptions, regs \in SeqsUpTo(LoadRegs, MaxRegs)}
    \cup {InvalidDoc, NoFile}

\* the file of a directory above the package: its regulations are not read
AboveDocs == {Document(d, <<>>) : d \in DefaultOptions} \cup {InvalidDoc, NoFile}

\* the directories strictly above dir, up to /
StrictlyAbove(dir) == {ancestors(dir)[i] : i \in 2..Len(ancestors(dir))}

\* the file of / , which lies above the workspace root
TopDocs == {NoFile, Document(Some(RawRegulation(<<S_x86>>, <<S_bins>>, Short(<<S_test>>))), <<>>)}

LoadFileSystems(dir) ==
    {(dir :> own) @@ above @@ (RootDir :> top) :
        own \in OwnDocs,
        above \in [StrictlyAbove(dir) \ {RootDir} -> AboveDocs],
        top \in TopDocs}

LoadInit ==
    /\ arg \in {Package(P_w), Package(P_w_a), Package(P_w_a_b), Package(P_x)}
    /\ metadata = [packages |-> <<arg>>, workspace_members |-> {arg.id}, workspace_root |-> P_w]
    /\ cwd = P_w
    /\ workspace = TRUE
    /\ fs \in LoadFileSystems(arg.id)
    /\ host = S_x86
    /\ pc = "call"
    /\ ret = Null
    /\ RunIdle

\* let info = load_customs(package, &metadata)
Load ==
    /\ pc = "call"
    /\ ret' = load_customs(arg, metadata, fs)
    /\ pc' = "done"
    /\ UNCHANGED <<metadata, cwd, workspace, fs, host, arg, runVars>>

SpecLoad == LoadInit /\ [][Load]_vars

\* load_customs returned a merged CustomsFile
Loaded == pc = "done" /\ ret.tag = "Ok" /\ ret.val.tag = "Some"

\* the CustomsFiles load_customs collected, in root-to-unit order
Collected == read_customs(fs, customs_dirs(arg, metadata).val).val

\* the positions of the collected files that declare a default
Declaring(chain) == {k \in 1..Len(chain) : chain[k].default.tag = "Some"}

\* the default of the nearest collected file that declares one
NearestDefault(chain) ==
    chain[CHOOSE k \in Declaring(chain) : \A j \in Declaring(chain) : j <= k].default.val

\* field of the merged regulation is what the claim says, own being the
\* regulation as written and empty telling whether the field is empty in it
FieldMerged(field, own, empty, chain, nearest_field) ==
    IF ~empty THEN field = own
    ELSE IF Declaring(chain) = {} THEN field = own
    ELSE field = nearest_field

(* C4: the merge is field-local and idempotent.  Every field of every      *)
(* regulation of the unit's own file that is non-empty is the same after   *)
(* load_customs; every empty field is the corresponding field of the       *)
(* nearest collected file that declares a default; without any default the *)
(* regulation is unchanged; merging the result again changes nothing.      *)
C4_MergeFieldLocal ==
    Loaded =>
        LET own == from_str(fs[arg.id]).val
            merged == ret.val.val
            chain == Collected
        IN /\ Len(merged.regulation) = Len(own.regulation)
           /\ \A i \in 1..Len(own.regulation) :
                 LET o == own.regulation[i]
                     m == merged.regulation[i]
                 IN /\ FieldMerged(m.platform_targets, o.platform_targets,
                                   o.platform_targets = <<>>, chain,
                                   NearestDefault(chain).platform_targets)
                    /\ FieldMerged(m.build_targets, o.build_targets,
                                   o.build_targets = <<>>, chain,
                                   NearestDefault(chain).build_targets)
                    /\ FieldMerged(m.jobs, o.jobs, Len(o.jobs.items) = 0, chain,
                                   NearestDefault(chain).jobs)
           /\ merge_customs(SubSeq(chain, 1, Len(chain) - 1) \o <<merged>>) = merged

\* a regulation with an empty and a non-empty field was merged under two
\* different defaults, and the empty field was filled
C4_Witness ==
    /\ Loaded
    /\ Cardinality({Collected[k].default : k \in Declaring(Collected)}) >= 2
    /\ \E i \in 1..Len(ret.val.val.regulation) :
          /\ from_str(fs[arg.id]).val.regulation[i].platform_targets = <<>>
          /\ from_str(fs[arg.id]).val.regulation[i].build_targets # <<>>
          /\ ret.val.val.regulation[i].platform_targets # <<>>

\* the unit lies in a subdirectory of the workspace root
BelowRoot == arg.id # metadata.workspace_root /\ GenuineAncestor(metadata.workspace_root, arg.id)

\* the directories from the workspace root down to dir, both included
RECURSIVE DownFromRoot(_, _)
DownFromRoot(dir, root) ==
    IF dir = root THEN <<dir>> ELSE DownFromRoot(parent(dir).val, root) \o <<dir>>

\* the documents of the directories dirs that hold one, parsed
RECURSIVE PresentDocs(_)
PresentDocs(dirs) ==
    IF dirs = <<>> THEN <<>>
    ELSE (IF fs[Head(dirs)] = NoFile THEN <<>> ELSE <<from_str(fs[Head(dirs)]).val>>)
         \o PresentDocs(Tail(dirs))

\* every document of the directories dirs can be parsed
AllValid(dirs) ==
    \A i \in 1..Len(dirs) : fs[dirs[i]] = NoFile \/ from_str(fs[dirs[i]]).tag = "Ok"

(* C10 as stated: for a unit in a subdirectory of the workspace root the   *)
(* collected directories are the unit's own and its ancestors strictly     *)
(* below the workspace root; the workspace root's own file is not among    *)
(* them and its default fills nothing.                                     *)
C10_RootExcluded ==
    (pc = "done" /\ BelowRoot) =>
        LET below == Tail(DownFromRoot(arg.id, metadata.workspace_root))
        IN /\ customs_dirs(arg, metadata).val = rev(below)
           /\ Loaded => ret.val.val = merge_customs(PresentDocs(below))

(* C10 amended: for a unit in a subdirectory of the workspace root the     *)
(* collected directories are the unit's own and every ancestor up to and   *)
(* including the workspace root, read in root-to-unit order: the result is *)
(* the merge over exactly these files, an unparsable one among them fails  *)
(* the load, and the file of a directory above the root changes nothing.   *)
C10_RootIncluded ==
    (pc = "done" /\ BelowRoot) =>
        LET upto == DownFromRoot(arg.id, metadata.workspace_root)
        IN /\ customs_dirs(arg, metadata).val = rev(upto)
           /\ (fs[arg.id] # NoFile /\ AllValid(upto)) =>
                 (Loaded /\ ret.val.val = merge_customs(PresentDocs(upto)))
           /\ (fs[arg.id] # NoFile /\ ~AllValid(upto)) => ret.tag = "Err"
           /\ ret = load_customs(arg, metadata, [fs EXCEPT ![RootDir] = NoFile])

\* the only default is the workspace root's, and it filled an empty field
\* of a unit two levels below the root, while / holds a default too
C10_Witness ==
    /\ Loaded
    /\ arg.id = P_w_a_b
    /\ fs[RootDir] # NoFile
    /\ fs[P_w] # NoFile
    /\ fs[P_w].default # None
    /\ fs[P_w_a] # NoFile
    /\ fs[P_w_a].default = None
    /\ fs[P_w_a_b].default = None
    /\ \E i \in 1..Len(ret.val.val.regulation) :
          /\ fs[P_w_a_b].regulation[i].platform_targets = <<>>
          /\ ret.val.val.regulation[i].platform_targets = fs[P_w].default.val.platform_targets
          /\ ret.val.val.regulation[i].platform_targets # <<>>

----------------------------------------------------------------------------
(* The matrix expander on its own: one [[regulation]] table as written,    *)
(* deserialized and expanded.                                              *)

MaxLen == 2         \* entries of platform-targets, build-targets and jobs

\* the maps from job name to args with at most two entries, in file order
DetailedItems ==
    {s \in SeqsUpTo({S_test, S_check} \X {<<>>, <<S_nocapture>>}, 2) :
        \A i, j \in 1..Len(s) : s[i][1] = s[j][1] => i = j}

ExpandJobs ==
    {Short(s) : s \in SeqsUpTo({S_test, S_check}, MaxLen)}
    \cup {Detailed(s) : s \in DetailedItems}

\* the `feature-sets` key: not written, or written with the given lists
FeatureSetOptions ==
    {None, Some(<<>>), Some(<< <<>> >>), Some(<< <<"f">>, <<>> >>)}

ExpandInputs ==
    {[platform_targets |-> p, build_targets |-> b, jobs |-> j, feature_sets |-> f] :
        p \in SeqsUpTo({HOST_PLATFORM_DESIGNATOR, S_wasm}, MaxLen),
        b \in SeqsUpTo({S_lib, ALL_BUILD_TARGETS_DESIGNATOR}, MaxLen),
        j \in ExpandJobs,
        f \in FeatureSetOptions}

ExpandInit ==
    /\ arg \in ExpandInputs
    /\ metadata = Null
    /\ cwd = P_w
    /\ workspace = FALSE
    /\ fs = <<>>
    /\ host = S_x86
    /\ pc = "call"
    /\ ret = Null
    /\ RunIdle

\* the regulation is deserialized and, if serde accepts it, expanded
ExpandRegulation ==
    /\ pc = "call"
    /\ LET parsed == deserialize_regulation(arg)
       IN IF parsed.tag = "Err"
          THEN ret' = [tag |-> "Err", err |-> "InvalidToml"]
          ELSE \E order \in Orders(Len(arg.jobs.items)) :
                  ret' = [tag |-> expand(parsed.val, order).tag,
                          units |-> IF expand(parsed.val, order).tag = "Ok"
                                    THEN expand(parsed.val, order).val ELSE <<>>,
                          order |-> order]
    /\ pc' = "done"
    /\ UNCHANGED <<metadata, cwd, workspace, fs, host, arg, runVars>>

SpecExpand == ExpandInit /\ [][ExpandRegulation]_vars

\* the number of feature-sets of the regulation: a single empty one if the
\* key is not written
FeatureSetCount == IF arg.feature_sets = None THEN 1 ELSE Len(arg.feature_sets.val)

\* the units are the tuples of P x B x J, P outermost and J innermost, each
\* repeated `inner` times in a row
NestedOrder(units, P, B, J, inner) ==
    /\ Len(units) = Len(P) * Len(B) * Len(J) * inner
    /\ \A i \in 1..Len(P), j \in 1..Len(B), k \in 1..Len(J), l \in 1..inner :
          LET u == units[(((i - 1) * Len(B) + (j - 1)) * Len(J) + (k - 1)) * inner + l]
          IN /\ u.platform_target = P[i]
             /\ u.build_target = B[j]
             /\ u.job = J[k]

----------------------------------------------------------------------------
(* The invocation builder on its own: one execution unit, checked in /w.   *)

CheckBuildTargets ==
    { S_lib, S_bins, S_examples, S_tests, S_benches, S_all_targets,
      ALL_BUILD_TARGETS_DESIGNATOR,
      S_bin_colon \o S_foo, S_example_colon \o S_foo, S_test_colon \o S_foo,
      S_bench_colon \o S_foo, S_bin_colon, S_foo, <<>> }

CheckInputs ==
    {[platform_target |-> p, build_target |-> b, job |-> j] :
        p \in {HOST_PLATFORM_DESIGNATOR, S_wasm},
        b \in CheckBuildTargets,
        j \in {from_short(S_test), from_parameters(S_check, <<S_nocapture>>)}}

CheckInit ==
    /\ arg \in CheckInputs
    /\ metadata = Null
    /\ cwd = P_w
    /\ workspace = FALSE
    /\ fs = <<>>
    /\ host \in {S_x86, NoRustc}
    /\ pc = "call"
    /\ ret = Null
    /\ RunIdle

\* regulation.check(directory)
RunCheck ==
    /\ pc = "call"
    /\ LET command == build_command(arg, P_w, host)
       IN IF command.tag = "Panic"
          THEN ret' = [tag |-> "Panic"]
          ELSE \E status \in Statuses :
                  ret' = [tag |-> "Spawned", args |-> command.args,
                          current_dir |-> command.current_dir,
                          status |-> status, result |-> check_result(status)]
    /\ pc' = "done"
    /\ UNCHANGED <<metadata, cwd, workspace, fs, host, arg, runVars>>

SpecCheck == CheckInit /\ [][RunCheck]_vars

ClaimedKinds == {<<"b","i","n">>, <<"e","x","a","m","p","l","e">>, <<"t","e","s","t">>,
                 <<"b","e","n","c","h">>}

S_all_targets_flag == <<"-","-">> \o S_all_targets

\* the flag the claim gives a build-target value, or None for a fatal error
ClaimedFlag(build_target) ==
    IF build_target \in {S_lib, S_bins, S_examples, S_tests, S_benches, S_all_targets}
    THEN Some(<<"-","-">> \o build_target)
    ELSE IF build_target = <<"a","l","l">> THEN Some(S_all_targets_flag)
    ELSE IF \E kind \in ClaimedKinds : starts_with(build_target, kind \o <<":">>)
    THEN LET kind == CHOOSE kind \in ClaimedKinds : starts_with(build_target, kind \o <<":">>)
         IN Some(<<"-","-">> \o kind \o <<"=">>
                   \o SubSeq(build_target, Len(kind) + 2, Len(build_target)))
    ELSE None

(* C6: build-target translation.  lib, bins, examples, tests, benches and  *)
(* all-targets give the double-dash flag of the same name, all gives       *)
(* --all-targets, <kind>:<name> with kind bin, example, test or bench      *)
(* gives --<kind>=<name>; any other value is a fatal error and no process  *)
(* is spawned.                                                             *)
C6_BuildTargetTranslation ==
    (pc = "done" /\ host # NoRustc) =>
        IF ClaimedFlag(arg.build_target) = None THEN ret.tag = "Panic"
        ELSE /\ ret.tag = "Spawned"
             /\ \E k \in 1..Len(ret.args) : ret.args[k] = ClaimedFlag(arg.build_target).val

============================================================================
